---- MODULE Spec2Model ----
(***************************************************************************)
(* Digital-bookshelf: the store-backed server (src/server.js), the         *)
(* registration handlers of the in-memory variants and the book form of    *)
(* the browser script.                                                      *)
(*                                                                         *)
(* Strings the code takes apart (usernames, emails, passwords) are          *)
(* sequences of one-character strings, so that trim, lowercase, length and *)
(* the email pattern are computed and not assumed.  Messages the code only *)
(* emits are TLA+ strings.  Every await of a handler is a step boundary:   *)
(* the store operation awaited is executed atomically by the step that     *)
(* resumes the handler.                                                     *)
(***************************************************************************)
EXTENDS Integers, Sequences, FiniteSets, Bags, TLC

\* ------------------------------------------------------------------ bounds
\* number of requests the server has in flight at once, and number of
\* requests the browser script awaits at once
MaxInFlight == 2
\* last day the clock reaches
MaxTime == 8
\* number of issued tokens the clients keep
MaxTokens == 2
\* documents created before the administrator stops deleting
MaxIds == 3
\* length of an in-memory users array past which no registration is sent
MaxArray == 2
\* number of books the user of the browser script keeps
MaxBooks == 2
\* number of requests the browser script sends
MaxCalls == 4

\* jwt.sign(..., { expiresIn: '7d' }), in days
TokenLifetime == 7


\* ------------------------------------------------------------ string model
\* "" (and a missing field: both are falsy for `!x`)
Empty == << >>

\* String.prototype.trim as mongoose's `trim: true` setter applies it
RECURSIVE TrimLeft(_)
TrimLeft(s) ==
  IF s = << >> THEN s
  ELSE IF Head(s) = " " THEN TrimLeft(Tail(s)) ELSE s

RECURSIVE TrimRight(_)
TrimRight(s) ==
  IF s = << >> THEN s
  ELSE IF s[Len(s)] = " " THEN TrimRight(SubSeq(s, 1, Len(s) - 1)) ELSE s

Trim(s) == TrimRight(TrimLeft(s))

\* String.prototype.toLowerCase as mongoose's `lowercase: true` setter applies it
LowerChar(c) ==
  CASE c = "A" -> "a"
    [] c = "B" -> "b"
    [] c = "C" -> "c"
    [] OTHER -> c

ToLower(s) == [i \in 1..Len(s) |-> LowerChar(s[i])]

\* `!x` on a string
Falsy(s) == Len(s) = 0

\* /^[^\s@]+@[^\s@]+\.[^\s@]+$/ : no whitespace, exactly one "@" with a
\* non-empty local part, and after it a "." with at least one character on
\* each side
isValidEmail(email) ==
  /\ \A i \in 1..Len(email) : email[i] # " "
  /\ Cardinality({i \in 1..Len(email) : email[i] = "@"}) = 1
  /\ \E i \in 2..Len(email) :
       /\ email[i] = "@"
       /\ \E k \in (i + 2)..(Len(email) - 1) : email[k] = "."

\* ------------------------------------------------------------------ inputs
abc == <<"a", "b", "c">>
xyz == <<"x", "y", "z">>
mailA == <<"a", "@", "b", ".", "c">>
mailAUpper == <<"A", "@", "b", ".", "c">>
mailX == <<"x", "@", "y", ".", "z">>
secret == <<"1", "2", "3", "4", "5", "6">>
other == <<"6", "5", "4", "3", "2", "1">>

\* bodies that fail any combination of the handler's checks
InvalidMix ==
  { Empty, <<"a", "b">>, abc }
    \X { Empty, <<"a", "@", "b">>, mailA }
    \X { Empty, <<"1", "2", "3", "4", "5">>, secret }

\* bodies that pass them: two users, bodies that collide with one or with
\* both of them, and usernames the trim setter changes
ValidMix ==
  { <<abc, mailA, secret>>,
    <<xyz, mailX, secret>>,
    <<abc, mailX, secret>>,
    <<xyz, mailAUpper, secret>>,
    <<<<" ", "a", "b">>, mailX, secret>>,
    <<<<" ", " ", " ">>, mailA, secret>> }

RegisterBodies == InvalidMix \cup ValidMix

\* ------------------------------------------------------- library functions
Salts == {"s"}

\* bcrypt.hash(password, 10): "$" + the salt + the digest of the password
\* under that salt
bcryptHash(password, salt) == <<"$", salt>> \o password

\* bcrypt.compare(password, hash): re-hash with the salt embedded in hash
bcryptCompare(password, hash) ==
  /\ Len(hash) >= 2
  /\ bcryptHash(password, hash[2]) = hash

\* a value that is not a token: undefined, "", a scheme word, a garbage token
NotJwt(k) == [kind |-> k, userId |-> 0, iat |-> 0, exp |-> 0]
Undefined == NotJwt("undefined")
EmptyWord == NotJwt("empty")
Bearer == NotJwt("scheme")
Garbage == NotJwt("garbage")

\* jwt.sign({ userId }, secret, { expiresIn: '1d' }) at time t
jwtSignOneDay(userId, t) == [kind |-> "jwt", userId |-> userId, iat |-> t, exp |-> t + 1]

\* jwt.sign({ userId }, secret, { expiresIn: '7d' }) at time t: the payload
\* with the iat and exp claims the library adds
jwtSign(userId, t) ==
  [kind |-> "jwt", userId |-> userId, iat |-> t, exp |-> t + TokenLifetime]

\* jwt.verify(token, secret) at time t returns the payload, or throws
\* (JsonWebTokenError for a malformed token, TokenExpiredError once t >= exp)
jwtVerifies(token, t) == token.kind = "jwt" /\ t < token.exp

\* ------------------------------------------------------------------- state
VARIABLES
  users,     \* the User collection of the store
  nextId,    \* the next _id the store hands out
  now,       \* the server's clock, in days
  issued,    \* the tokens the clients hold
  inflight,  \* the requests whose handler is suspended at an await (a bag)
  last,      \* the request answered last, with its response
  memUsers,  \* the `users` arrays of the in-memory variants, by module
  client     \* the globals of the browser script (src/public/script.js)

vars == <<users, nextId, now, issued, inflight, last, memUsers, client>>

EmptyBooks == [read |-> << >>, unread |-> << >>, wishlist |-> << >>]

\* req.body.books of a PUT: undefined, or an object with some of the lists
NoBooksSent == [type |-> "undefined", value |-> EmptyBooks]
BooksSent(b) == [type |-> "object", value |-> b]

NoUser == [_id |-> 0, username |-> Empty, email |-> Empty, password |-> Empty,
           books |-> EmptyBooks]

NoBody == [none |-> TRUE]

\* currentUser = null in the browser script
NoCurrentUser == [id |-> 0, username |-> Empty, email |-> Empty]

\* one request: its input, the handler's position and locals (user: the
\* document the handler or the gate holds; thrown: the error its catch block
\* received; trace: the checks and calls it made, in order; at: the time at
\* which the gate looked at its token), its response
Request(route, pc, username, email, password, header, books, complete, trace) ==
  [route |-> route, at |-> 0, pc |-> pc, username |-> username, email |-> email,
   password |-> password, header |-> header, books |-> books, complete |-> complete,
   user |-> NoUser, trace |-> trace, thrown |-> "", status |-> 0, body |-> NoBody]

NoRequest == Request("none", "idle", Empty, Empty, Empty, << >>, NoBooksSent, FALSE, << >>)

\* res.status(status).json(body)
Respond(q, status, body) == [q EXCEPT !.pc = "done", !.status = status, !.body = body]

ErrorBody(msg) == [error |-> msg]

\* the whole document sent as the projection
ProjectionWhole(user) ==
  [id |-> user._id, username |-> user.username, email |-> user.email,
   password |-> user.password]

\* { id: user._id, username: user.username, email: user.email }
Projection(user) == [id |-> user._id, username |-> user.username, email |-> user.email]

\* the client keeps a token it was sent while it has room for one
Keep(token) == IF Cardinality(issued) < MaxTokens THEN issued \cup {token} ELSE issued

Init ==
  /\ users = {}
  /\ nextId = 1
  /\ now = 0
  /\ issued = {}
  /\ inflight = EmptyBag
  /\ last = NoRequest
  /\ memUsers = [index |-> << >>, handler |-> << >>]
  /\ client = [books |-> EmptyBooks, currentBookType |-> "", editingBookIndex |-> -1,
               currentUser |-> NoCurrentUser, token |-> Undefined, user |-> FALSE,
               page |-> "app", started |-> FALSE, modal |-> FALSE, calls |-> << >>]

\* the server accepts another request
Accepting == BagCardinality(inflight) < MaxInFlight

\* a handler runs from one await to the next (q to q2), or to its response
Suspend(q2) ==
  /\ inflight' = inflight (+) SetToBag({q2})
  /\ UNCHANGED last

Resume(q, q2) ==
  /\ inflight' = (inflight (-) SetToBag({q})) (+) SetToBag({q2})
  /\ UNCHANGED last

Answer(q2) ==
  /\ last' = q2
  /\ UNCHANGED inflight

Finish(q, q2) ==
  /\ last' = q2
  /\ inflight' = inflight (-) SetToBag({q})

At(pc) == {q \in BagToSet(inflight) : q.pc = pc}

\* ------------------------------------------------------------------- store
\* the values mongoose's setters store for (and cast a query on) each path
CastUsername(username) == Trim(username)
CastEmail(email) == ToLower(Trim(email))

\* User.findOne({ $or: [{ email }, { username }] }): the documents it may return
FindOneMatches(email, username) ==
  {d \in users : d.email = CastEmail(email) \/ d.username = CastUsername(username)}

\* a collection whose unique indexes were never built
ViolatedKeysNoIndex(doc) == {}

\* the unique indexes an insert of doc would violate
ViolatedKeys(doc) ==
  {f \in {"username", "email"} : \E d \in users : d[f] = doc[f]}

\* schema validation on save: the required paths are non-empty after the
\* setters ran and the stored password has at least minlength characters
ValidDoc(doc) ==
  /\ ~Falsy(doc.username)
  /\ ~Falsy(doc.email)
  /\ Len(doc.password) >= 6

\* `${field} already exists`
DupKeyMessage(field) ==
  IF field = "email" THEN "email already exists" ELSE "username already exists"

\* the email checked before the username length
RegisterValidateSwapped(username, email, password) ==
  IF Falsy(username) \/ Falsy(email) \/ Falsy(password)
    THEN [trace |-> <<"required">>, error |-> "All fields are required"]
  ELSE IF ~isValidEmail(email)
    THEN [trace |-> <<"required", "emailShape">>,
          error |-> "Please enter a valid email address"]
  ELSE IF Len(username) < 3
    THEN [trace |-> <<"required", "emailShape", "usernameLength">>,
          error |-> "Username must be at least 3 characters"]
  ELSE IF Len(password) < 6
    THEN [trace |-> <<"required", "emailShape", "usernameLength", "passwordLength">>,
          error |-> "Password must be at least 6 characters"]
  ELSE [trace |-> <<"required", "emailShape", "usernameLength", "passwordLength">>,
        error |-> ""]

\* ---------------------------------------------------------------- register
\* the checks of the handler before its first await, in the handler's order:
\* the checks made and the error of the one that failed ("" when none did)
RegisterValidate(username, email, password) ==
  IF Falsy(username) \/ Falsy(email) \/ Falsy(password)
    THEN [trace |-> <<"required">>, error |-> "All fields are required"]
  ELSE IF Len(username) < 3
    THEN [trace |-> <<"required", "usernameLength">>,
          error |-> "Username must be at least 3 characters"]
  ELSE IF ~isValidEmail(email)
    THEN [trace |-> <<"required", "usernameLength", "emailShape">>,
          error |-> "Please enter a valid email address"]
  ELSE IF Len(password) < 6
    THEN [trace |-> <<"required", "usernameLength", "emailShape", "passwordLength">>,
          error |-> "Password must be at least 6 characters"]
  ELSE [trace |-> <<"required", "usernameLength", "emailShape", "passwordLength">>,
        error |-> ""]

\* POST /api/register up to `await User.findOne`
RegisterStart(username, email, password) ==
  /\ Accepting
  /\ LET v == RegisterValidate(username, email, password)
         q == Request("register", "reg_findOne", username, email, password,
                      << >>, NoBooksSent, FALSE, v.trace)
     IN IF v.error # "" THEN Answer(Respond(q, 400, ErrorBody(v.error)))
        ELSE Suspend(q)
  /\ UNCHANGED <<users, nextId, now, issued, memUsers, client>>

\* what the handler answers for the document findOne returned ("": nothing,
\* it goes on)
ExistingUserError(existingUser, username, email) ==
  IF existingUser.email = email THEN "Email already exists"
  ELSE IF existingUser.username = username THEN "Username already exists"
  ELSE ""

\* the findOne resolves; the handler goes on to `await bcrypt.hash`
RegisterFindOne ==
  /\ \E q \in At("reg_findOne") :
       LET q2 == [q EXCEPT !.trace = Append(@, "findOne")]
           matches == FindOneMatches(q.email, q.username)
       IN \/ /\ matches = {}
             /\ Resume(q, [q2 EXCEPT !.pc = "reg_save"])
          \/ \E existingUser \in matches :
               LET err == ExistingUserError(existingUser, q.username, q.email)
               IN IF err # ""
                    THEN Finish(q, Respond([q2 EXCEPT !.user = existingUser],
                                           400, ErrorBody(err)))
                  ELSE Resume(q, [q2 EXCEPT !.pc = "reg_save"])
  /\ UNCHANGED <<users, nextId, now, issued, memUsers, client>>

\* the hash resolves, the document is built and `await user.save()` resolves
\* or throws; the handler answers
RegisterSave ==
  /\ \E q \in At("reg_save"), salt \in Salts :
       LET q2 == [q EXCEPT !.trace = @ \o <<"hash", "save">>]
           user == [_id |-> nextId,
                    username |-> CastUsername(q.username),
                    email |-> CastEmail(q.email),
                    password |-> bcryptHash(q.password, salt),
                    books |-> EmptyBooks]
           token == jwtSign(user._id, now)
       IN IF ~ValidDoc(user)
            THEN /\ Finish(q, Respond([q2 EXCEPT !.thrown = "ValidationError"], 500,
                                      ErrorBody("Server error during registration")))
                 /\ UNCHANGED <<users, nextId, issued>>
          ELSE IF ViolatedKeys(user) # {}
            THEN /\ \E field \in ViolatedKeys(user) :
                      Finish(q, Respond([q2 EXCEPT !.thrown = field], 400,
                                        ErrorBody(DupKeyMessage(field))))
                 /\ UNCHANGED <<users, nextId, issued>>
          ELSE /\ users' = users \cup {user}
               /\ nextId' = nextId + 1
               /\ issued' = Keep(token)
               /\ Finish(q, Respond([q2 EXCEPT !.user = user], 201,
                                    [message |-> "User created successfully",
                                     token |-> token,
                                     user |-> Projection(user)]))
  /\ UNCHANGED <<now, memUsers, client>>

\* ------------------------------------------------------------------- login
\* User.findOne({ $or: [{ username: x }, { email: x }] }): the documents it
\* may return
LoginMatches(usernameOrEmail) ==
  {d \in users : \/ d.username = CastUsername(usernameOrEmail)
                 \/ d.email = CastEmail(usernameOrEmail)}

\* POST /api/login up to `await User.findOne`
LoginStart(usernameOrEmail, password) ==
  /\ Accepting
  /\ LET q == Request("login", "login_findOne", usernameOrEmail, Empty, password,
                      << >>, NoBooksSent, FALSE, <<"required">>)
     IN IF Falsy(usernameOrEmail) \/ Falsy(password)
          THEN Answer(Respond(q, 400,
                              ErrorBody("Username/email and password are required")))
        ELSE Suspend(q)
  /\ UNCHANGED <<users, nextId, now, issued, memUsers, client>>

\* an answer that tells an unknown identifier from a wrong password
LoginFailureDistinct(reason) ==
  IF reason = "findOne"
    THEN [status |-> 404, body |-> ErrorBody("User not found")]
  ELSE [status |-> 401, body |-> ErrorBody("Wrong password")]

\* what the handler answers when findOne returned null (reason "findOne") and
\* when bcrypt.compare returned false (reason "compare")
LoginFailure(reason) == [status |-> 400, body |-> ErrorBody("Invalid credentials")]

\* the findOne resolves, then `await bcrypt.compare`; the handler answers
LoginAnswer ==
  \E q \in At("login_findOne") :
    LET q2 == [q EXCEPT !.trace = Append(@, "findOne")]
        matches == LoginMatches(q.username)
    IN \/ /\ matches = {}
          /\ Finish(q, Respond(q2, LoginFailure("findOne").status,
                               LoginFailure("findOne").body))
          /\ UNCHANGED issued
       \/ \E user \in matches :
            LET q3 == [q2 EXCEPT !.user = user, !.trace = Append(@, "compare")]
                token == jwtSign(user._id, now)
            IN IF ~bcryptCompare(q.password, user.password)
                 THEN /\ Finish(q, Respond(q3, LoginFailure("compare").status,
                                           LoginFailure("compare").body))
                      /\ UNCHANGED issued
               ELSE /\ Finish(q, Respond(q3, 200,
                                         [message |-> "Login successful",
                                          token |-> token,
                                          user |-> Projection(user)]))
                    /\ issued' = Keep(token)

\* a login that writes the document back with its embedded lists reset
LoginFindOneSaving ==
  /\ LoginAnswer
  /\ users' = IF last'.status = 200
                THEN {IF d._id = last'.user._id THEN [d EXCEPT !.books = EmptyBooks]
                      ELSE d : d \in users}
              ELSE users
  /\ UNCHANGED <<nextId, now, memUsers, client>>

\* POST /api/login from its findOne to its answer: it writes nothing
LoginFindOne ==
  /\ LoginAnswer
  /\ UNCHANGED <<users, nextId, now, memUsers, client>>

\* ------------------------------------------------------ request bodies
Dune == [read |-> <<"Dune">>, unread |-> << >>, wishlist |-> << >>]

\* { wishlist: [...] }: an object with one of the three lists
Emma == [wishlist |-> <<"Emma">>]

\* {} : an object with none of them
NoLists == [n \in {} |-> << >>]

\* { books: {...}, username, email, password }: a body that names the other
\* fields of a User next to books; `const { books } = req.body` reads books
BooksAndMore ==
  [type |-> "object", value |-> [unread |-> <<"Ulysses">>],
   username |-> xyz, email |-> mailX, password |-> other]

PutBodies == { NoBooksSent, BooksSent(Dune) }

\* the bodies of the requests to a protected route, those of a PUT among
\* putBodies
GateArgs(route, putBodies) ==
  CASE route = "books_put" -> {<<b, FALSE>> : b \in putBodies}
    [] route \in {"ai_summary", "ai_recs"} -> {<<NoBooksSent, c>> : c \in BOOLEAN}
    [] OTHER -> {<<NoBooksSent, FALSE>>}

\* --------------------------------------------------------------- auth gate
ProtectedRoutes == {"verify", "books_get", "books_put", "ai_summary", "ai_recs"}

\* the header taken whole for the token
TokenOfFirstWord(header) == IF Len(header) >= 1 THEN header[1] ELSE Undefined

\* authHeader && authHeader.split(' ')[1]; a header is the list of its words,
\* the empty list when the request has none
TokenOf(header) == IF Len(header) >= 2 THEN header[2] ELSE Undefined

\* a catch block that tells an expired token from a malformed one
GateCatchDistinct(error) ==
  IF error = "TokenExpiredError"
    THEN [status |-> 401, body |-> ErrorBody("Token expired")]
  ELSE [status |-> 403, body |-> ErrorBody("Invalid token")]

\* the catch block of authenticateToken: what it answers for the error caught
GateCatch(error) == [status |-> 403, body |-> ErrorBody("Invalid or expired token")]

\* authenticateToken up to `await User.findById`; the gate does not read the
\* body, which the request record takes up when the handler reads it
GateVerify(route, header) ==
  /\ Accepting
  /\ LET token == TokenOf(header)
         q == [Request(route, "gate_findById", Empty, Empty, Empty, header,
                       NoBooksSent, FALSE, <<"token">>) EXCEPT !.at = now]
         q2 == [q EXCEPT !.trace = Append(@, "jwt.verify")]
     IN IF token.kind \in {"undefined", "empty"}
          THEN Answer(Respond(q, 401, ErrorBody("Access token required")))
        ELSE IF ~jwtVerifies(token, now)
          THEN LET error == IF token.kind = "jwt" THEN "TokenExpiredError"
                            ELSE "JsonWebTokenError"
               IN Answer(Respond([q2 EXCEPT !.thrown = error],
                                 GateCatch(error).status, GateCatch(error).body))
        ELSE Suspend(q2)

\* a request to a protected route arrives from a client other than the
\* browser script
GateStart(route, header) ==
  /\ GateVerify(route, header)
  /\ UNCHANGED <<users, nextId, now, issued, memUsers, client>>

\* the protected handler, from next() to its first await or to its response;
\* books, complete: req.body.books, and whether the body has the fields the
\* AI handlers require; apiKey: whether process.env.GEMINI_API_KEY is set
HandlerStart(q, q2, books, complete, apiKey) ==
  LET h == [q2 EXCEPT !.trace = Append(@, "handler"), !.books = books,
                      !.complete = complete]
  IN CASE q.route = "verify" ->
            Finish(q, Respond(h, 200, [user |-> Projection(h.user)]))
       [] q.route = "books_get" ->
            Resume(q, [h EXCEPT !.pc = "books_findById"])
       [] q.route = "books_put" ->
            IF books.type # "object"
              THEN Finish(q, Respond(h, 400, ErrorBody("Invalid books data")))
            ELSE Resume(q, [h EXCEPT !.pc = "books_update"])
       [] q.route = "ai_summary" ->
            IF ~complete
              THEN Finish(q, Respond(h, 400, ErrorBody("Title and author are required")))
            ELSE IF ~apiKey
              THEN Finish(q, Respond(h, 500, ErrorBody("AI service is not configured")))
            ELSE Resume(q, [h EXCEPT !.pc = "ai_fetch"])
       [] q.route = "ai_recs" ->
            IF ~complete
              THEN Finish(q, Respond(h, 400, ErrorBody("Genre is required")))
            ELSE IF ~apiKey
              THEN Finish(q, Respond(h, 500, ErrorBody("AI service is not configured")))
            ELSE Resume(q, [h EXCEPT !.pc = "ai_fetch"])

\* a lookup that falls back to any document when the id matches none
FindByIdAny(id) ==
  IF {d \in users : d._id = id} # {} THEN {d \in users : d._id = id} ELSE users

\* a lookup that ignores the id
FindByIdOther(id) == users

\* User.findById(id)
FindById(id) == {d \in users : d._id = id}

\* the findById of the gate resolves: 403, or req.user = user and next()
GateFindById(putBodies) ==
  /\ \E q \in At("gate_findById") :
       LET q2 == [q EXCEPT !.trace = Append(@, "findById")]
           found == FindById(TokenOf(q.header).userId)
       IN IF found = {}
            THEN Finish(q, Respond(q2, 403, ErrorBody("User not found")))
          ELSE \E user \in found, a \in GateArgs(q.route, putBodies), apiKey \in BOOLEAN :
                 HandlerStart(q, [q2 EXCEPT !.user = user, !.trace = Append(@, "next")],
                              a[1], a[2], apiKey)
  /\ UNCHANGED <<users, nextId, now, issued, memUsers, client>>

\* ------------------------------------------------------------------- books
ListNames == {"read", "unread", "wishlist"}

\* user.books of the document mongoose builds from a stored one: an array
\* path the stored document lacks gets its default, the empty array
Hydrate(books) ==
  [read |-> IF "read" \in DOMAIN books THEN books["read"] ELSE << >>,
   unread |-> IF "unread" \in DOMAIN books THEN books["unread"] ELSE << >>,
   wishlist |-> IF "wishlist" \in DOMAIN books THEN books["wishlist"] ELSE << >>]

\* GET /api/books: the handler's findById resolves; user.books throws on null
BooksFindById ==
  /\ \E q \in At("books_findById") :
       LET q2 == [q EXCEPT !.trace = Append(@, "books.read")]
           found == FindById(q.user._id)
       IN IF found = {}
            THEN Finish(q, Respond([q2 EXCEPT !.thrown = "TypeError"], 500,
                                   ErrorBody("Error fetching books")))
          ELSE \E user \in found : Finish(q, Respond(q2, 200, Hydrate(user.books)))
  /\ UNCHANGED <<users, nextId, now, issued, memUsers, client>>

\* an update that sets each list sent (books.read, ...) and keeps the others
UpdateBooksMerge(id, books) ==
  {IF d._id = id
     THEN [d EXCEPT !.books =
             [n \in ListNames |->
                IF n \in DOMAIN books THEN books[n]
                ELSE IF n \in DOMAIN d.books THEN d.books[n] ELSE << >>]]
   ELSE d : d \in users}

\* an update without the filter on _id: every document gets the books
UpdateBooksAll(id, books) ==
  {[d EXCEPT !.books = books] : d \in users}

\* User.findByIdAndUpdate(id, { books }): $set of the whole books path
UpdateBooks(id, books) ==
  {IF d._id = id THEN [d EXCEPT !.books = books] ELSE d : d \in users}

\* PUT /api/books: the update resolves
BooksUpdate ==
  /\ \E q \in At("books_update") :
       /\ users' = UpdateBooks(q.user._id, q.books.value)
       /\ Finish(q, Respond([q EXCEPT !.trace = Append(@, "books.write")], 200,
                            [message |-> "Books updated successfully"]))
  /\ UNCHANGED <<nextId, now, issued, memUsers, client>>

\* ---------------------------------------------------------------- AI proxy
\* what the provider call comes to: fetch rejects or the status is not ok or
\* the payload cannot be read ("throw"), a payload without a usable candidate
\* ("empty"), a payload with one ("ok")
FetchOutcomes == {"throw", "empty", "ok"}

\* POST /api/ai-summary and /api/ai-recommendations: the fetch resolves
AiFetch(outcome) ==
  /\ \E q \in At("ai_fetch") :
       LET q2 == [q EXCEPT !.trace = Append(@, "fetch")]
           summary == q.route = "ai_summary"
       IN CASE outcome = "throw" ->
                 Finish(q, Respond([q2 EXCEPT !.thrown = "Error"], 500,
                   ErrorBody(IF summary THEN "Error generating summary"
                             ELSE "Error fetching recommendations")))
            [] outcome = "empty" ->
                 Finish(q, Respond(q2, 500,
                   ErrorBody(IF summary THEN "Could not generate a summary"
                             ELSE "Could not fetch recommendations")))
            [] outcome = "ok" ->
                 Finish(q, Respond(q2, 200,
                   IF summary THEN [summary |-> "text"]
                   ELSE [recommendations |-> "list"]))
  /\ UNCHANGED <<users, nextId, now, issued, memUsers, client>>

\* ------------------------------------------------------------- environment
\* a day passes
Tick ==
  /\ now < MaxTime
  /\ now' = now + 1
  /\ UNCHANGED <<users, nextId, issued, inflight, last, memUsers, client>>

\* an administrator deletes a User document in the store (no endpoint does)
AdminDelete ==
  /\ nextId <= MaxIds
  /\ \E d \in users : users' = users \ {d}
  /\ UNCHANGED <<nextId, now, issued, inflight, last, memUsers, client>>

\* ------------------------------------------------------ in-memory variants
\* the registration handlers that keep the users in a module-level array:
\* the Express app with bcrypt ("index") and the serverless function
\* ("handler"); both compare the raw strings

\* users.find(u => u.email === email), users.find(u => u.username === username)
ArrayHas(array, field, value) == \E i \in 1..Len(array) : array[i][field] = value

\* the Express app, POST /api/register up to `await bcrypt.hash`
IndexRegisterStart(username, email, password) ==
  /\ Accepting
  /\ Len(memUsers.index) < MaxArray
  /\ LET q == Request("index_register", "index_hash", username, email, password,
                      << >>, NoBooksSent, FALSE, <<"required">>)
         q2 == [q EXCEPT !.trace = Append(@, "find")]
     IN IF Falsy(username) \/ Falsy(email) \/ Falsy(password)
          THEN Answer(Respond(q, 400, ErrorBody("Missing fields")))
        ELSE IF ArrayHas(memUsers.index, "email", email)
          THEN Answer(Respond(q2, 400, ErrorBody("Email already registered")))
        ELSE Suspend(q2)
  /\ UNCHANGED <<users, nextId, now, issued, memUsers, client>>

\* the hash resolves: the user is built with id users.length + 1 and pushed,
\* a token of one hour is signed, the handler answers 200
IndexRegisterPush ==
  /\ \E q \in At("index_hash"), salt \in Salts :
       LET user == [id |-> Len(memUsers.index) + 1, username |-> q.username,
                    email |-> q.email, password |-> bcryptHash(q.password, salt)]
           token == [kind |-> "jwt", userId |-> user.id, iat |-> now, exp |-> now + 1]
       IN /\ memUsers' = [memUsers EXCEPT !.index = Append(@, user)]
          /\ Finish(q, Respond([q EXCEPT !.trace = @ \o <<"hash", "push">>], 200,
                               [user |-> [id |-> user.id, username |-> q.username,
                                          email |-> q.email],
                                token |-> token]))
  /\ UNCHANGED <<users, nextId, now, issued, client>>

\* the serverless function, a POST up to `await bcrypt.hash`
HandlerRegisterStart(username, email, password) ==
  /\ Accepting
  /\ Len(memUsers.handler) < MaxArray
  /\ LET q == Request("handler_register", "handler_hash", username, email, password,
                      << >>, NoBooksSent, FALSE, <<"required">>)
         q2 == [q EXCEPT !.trace = Append(@, "passwordLength")]
         q3 == [q2 EXCEPT !.trace = Append(@, "find")]
     IN IF Falsy(username) \/ Falsy(email) \/ Falsy(password)
          THEN Answer(Respond(q, 400, ErrorBody("Missing fields")))
        ELSE IF Len(password) < 6
          THEN Answer(Respond(q2, 400,
                              ErrorBody("Password must be at least 6 characters")))
        ELSE IF ArrayHas(memUsers.handler, "email", email)
          THEN Answer(Respond(q3, 400, ErrorBody("Email already registered")))
        ELSE IF ArrayHas(memUsers.handler, "username", username)
          THEN Answer(Respond(q3, 400, ErrorBody("Username already taken")))
        ELSE Suspend(q3)
  /\ UNCHANGED <<users, nextId, now, issued, memUsers, client>>

\* the hash resolves: the user is built and pushed, a token of seven days is
\* signed, the handler answers 201
HandlerRegisterPush ==
  /\ \E q \in At("handler_hash"), salt \in Salts :
       LET user == [id |-> Len(memUsers.handler) + 1, username |-> q.username,
                    email |-> q.email, password |-> bcryptHash(q.password, salt),
                    createdAt |-> now]
           token == jwtSign(user.id, now)
       IN /\ memUsers' = [memUsers EXCEPT !.handler = Append(@, user)]
          /\ Finish(q, Respond([q EXCEPT !.trace = @ \o <<"hash", "push">>], 201,
                               [user |-> [id |-> user.id, username |-> q.username,
                                          email |-> q.email],
                                token |-> token]))
  /\ UNCHANGED <<users, nextId, now, issued, client>>

\* ---------------------------------------------------------- browser script
\* the book form of src/public/script.js; the values of its inputs are
\* strings (sequences of characters), a book entry carries the title, the
\* author and the numbers saveBook derives from the form

IsDigit(c) == c \in {"0", "1", "2", "3", "4", "5", "6", "7", "8", "9"}

DigitValue(c) ==
  CASE c = "0" -> 0 [] c = "1" -> 1 [] c = "2" -> 2 [] c = "3" -> 3 [] c = "4" -> 4
    [] c = "5" -> 5 [] c = "6" -> 6 [] c = "7" -> 7 [] c = "8" -> 8 [] c = "9" -> 9

\* the value of the leading digits of s, after the digits that gave acc
RECURSIVE DigitsValue(_, _)
DigitsValue(s, acc) ==
  IF s = << >> \/ ~IsDigit(Head(s)) THEN acc
  ELSE DigitsValue(Tail(s), 10 * acc + DigitValue(Head(s)))

\* parseInt(s): leading whitespace skipped, an optional sign, then digits up
\* to the first character that is none; NaN when there is no digit
parseInt(s) ==
  LET t == TrimLeft(s)
      signed == t # << >> /\ Head(t) \in {"-", "+"}
      digits == IF signed THEN Tail(t) ELSE t
  IN IF digits = << >> \/ ~IsDigit(Head(digits)) THEN [nan |-> TRUE, value |-> 0]
     ELSE [nan |-> FALSE,
           value |-> IF Head(t) = "-" THEN 0 - DigitsValue(digits, 0)
                     ELSE DigitsValue(digits, 0)]

\* parseInt(s) || 0
ParseIntOrZero(s) == IF parseInt(s).nan THEN 0 ELSE parseInt(s).value

\* Math.round(n / d) for d > 0: the nearest integer, halves rounded up
MathRound(n, d) == (2 * n + d) \div (2 * d)

\* pages > 0 ? Math.round((currentPage / pages) * 100) : 0
Progress(pages, currentPage) ==
  IF pages > 0 THEN MathRound(currentPage * 100, pages) ELSE 0

Shelves == {"read", "unread", "wishlist"}

BookCount == Len(client.books.read) + Len(client.books.unread) + Len(client.books.wishlist)

\* an empty slot of an array (null in JSON)
Null == [null |-> TRUE]

\* the page of the script is shown and its DOMContentLoaded listener has run
Running == client.page = "app" /\ client.started

\* one fetch of the script: the function that awaits it, the route, the
\* books of its body, where it stands ("fetch": the server has the request;
\* "unreachable": the request did not get to the server and the promise is
\* to reject; "settled") and what the function awaiting it received
Call(fn, route, body, reachable) ==
  [fn |-> fn, route |-> route, body |-> body,
   pc |-> IF reachable THEN "fetch" ELSE "unreachable", returned |-> "pending"]

Settle(c, i, returned) ==
  [c EXCEPT !.calls[i] = [@ EXCEPT !.pc = "settled", !.body = NoBooksSent,
                                   !.returned = returned]]

\* 'Authorization': `Bearer ${token}`, the token being the string null when
\* the storage has none; the third element is not part of the header: it
\* names the connection, by which the response finds its fetch
Authorization(c) ==
  <<Bearer, IF c.token = Undefined THEN Garbage ELSE c.token, Len(c.calls) + 1>>

\* fetch(url, options) by the script whose globals and storage are c: the
\* request gets to the gate of the server, or it does not
Fetch(c, fn, route, body, reachable) ==
  /\ Len(c.calls) < MaxCalls
  /\ Cardinality({i \in 1..Len(c.calls) : c.calls[i].pc # "settled"}) < MaxInFlight
  /\ client' = [c EXCEPT !.calls = Append(@, Call(fn, route, body, reachable))]
  /\ IF reachable THEN GateVerify(route, Authorization(c))
     ELSE UNCHANGED <<inflight, last>>
  /\ UNCHANGED <<users, nextId, now, issued, memUsers>>

\* saveBooks() up to the fetch of makeAuthenticatedRequest: the body is
\* JSON.stringify({ books }) of the books at the time of the call
saveBooks(c, fn, reachable) == Fetch(c, fn, "books_put", BooksSent(c.books), reachable)

\* logout()
logout(c) == [c EXCEPT !.token = Undefined, !.user = FALSE, !.page = "auth"]

\* the DOMContentLoaded listener: checkAuthentication() up to its fetch;
\* token: the bookshelf_token the storage holds when the page opens (the
\* storage holds a bookshelf_user when it holds a token)
DOMContentLoaded(token, reachable) ==
  /\ client.page = "app"
  /\ ~client.started
  /\ LET c == [client EXCEPT !.started = TRUE, !.token = token,
                             !.user = (token # Undefined)]
     IN IF token \in {Undefined, EmptyWord}
          THEN /\ client' = [c EXCEPT !.page = "auth"]
               /\ UNCHANGED <<users, nextId, now, issued, inflight, last, memUsers>>
        ELSE Fetch(c, "checkAuthentication", "verify", NoBooksSent, reachable)

\* openAddBook(type): the empty form is shown for a new book of the shelf
openAddBook(type) ==
  /\ Running
  /\ ~client.modal
  /\ client' = [client EXCEPT !.currentBookType = type, !.editingBookIndex = -1,
                              !.modal = TRUE]
  /\ UNCHANGED <<users, nextId, now, issued, inflight, last, memUsers>>

\* openBookDetails(type, index): the form is shown for the book clicked;
\* reading the title of an empty slot throws before showModal()
openBookDetails(type, index) ==
  /\ Running
  /\ ~client.modal
  /\ index \in 0..(Len(client.books[type]) - 1)
  /\ client' = [client EXCEPT
                  !.currentBookType = type, !.editingBookIndex = index,
                  !.modal = ("null" \notin DOMAIN client.books[type][index + 1])]
  /\ UNCHANGED <<users, nextId, now, issued, inflight, last, memUsers>>

\* array[index] = book: past the end the array grows, the slots skipped
\* staying empty
SetAt(array, index, book) ==
  IF index < Len(array) THEN [array EXCEPT ![index + 1] = book]
  ELSE array \o [k \in 1..(index - Len(array)) |-> Null] \o <<book>>

\* array.splice(index, 1) for index >= 0
Splice(array, index) ==
  [k \in 1..(Len(array) - (IF index < Len(array) THEN 1 ELSE 0)) |->
     IF k <= index THEN array[k] ELSE array[k + 1]]

\* saveBook() up to the fetch of `await saveBooks()`, with the values of the
\* form's inputs
saveBook(titleField, authorField, pagesField, currentPageField, reachable) ==
  /\ Running
  /\ client.modal
  /\ LET title == Trim(titleField)
         author == Trim(authorField)
         pages == ParseIntOrZero(pagesField)
         currentPage == ParseIntOrZero(currentPageField)
         book == [title |-> title, author |-> author, pages |-> pages,
                  currentPage |-> currentPage,
                  progress |-> Progress(pages, currentPage)]
         type == client.currentBookType
         index == client.editingBookIndex
     IN IF Falsy(title) \/ Falsy(author) THEN UNCHANGED vars
        ELSE IF index >= 0
          THEN /\ BookCount + (index + 1 - Len(client.books[type])) <= MaxBooks
               /\ saveBooks([client EXCEPT !.books[type] = SetAt(@, index, book)],
                            "saveBook", reachable)
        ELSE /\ BookCount < MaxBooks
             /\ saveBooks([client EXCEPT !.books[type] = Append(@, book)],
                          "saveBook", reachable)

\* deleteBook(), from the button the form shows for a book opened, up to
\* the fetch of `await saveBooks()`; confirmed: the answer to confirm()
deleteBook(confirmed, reachable) ==
  /\ Running
  /\ client.modal
  /\ client.editingBookIndex >= 0
  /\ IF ~confirmed THEN UNCHANGED vars
     ELSE saveBooks([client EXCEPT !.books[client.currentBookType] =
                                     Splice(@, client.editingBookIndex)],
                    "deleteBook", reachable)

\* addRecommendationToWishlist(title, author, ...), from the button of a
\* recommendation shown, up to the fetch of `await saveBooks()`
addRecommendationToWishlist(title, author, reachable) ==
  /\ Running
  /\ BookCount < MaxBooks
  /\ saveBooks([client EXCEPT !.books.wishlist =
                  Append(@, [title |-> title, author |-> author, pages |-> 0,
                             currentPage |-> 0, progress |-> 0])],
               "addRecommendationToWishlist", reachable)

SaveFns == {"saveBook", "deleteBook", "addRecommendationToWishlist"}

\* what follows `await saveBooks()` in its caller: saveBook and deleteBook
\* go on to renderBooks() and closeModal()
AfterSaveBooks(c, fn) ==
  IF fn \in {"saveBook", "deleteBook"} THEN [c EXCEPT !.modal = FALSE] ELSE c

\* a makeAuthenticatedRequest that answers every status with the response
makeAuthenticatedRequestAll(status) == "response"

\* makeAuthenticatedRequest once its fetch resolved: what it returns
makeAuthenticatedRequest(status) ==
  IF status = 401 \/ status = 403 THEN "null" ELSE "response"

\* response.ok
Ok(status) == status \in 200..299

\* a fetch whose request did not get to the server rejects: the catch block
\* of checkAuthentication sends the page to /auth.html; makeAuthenticatedRequest
\* throws again, loadBooks and saveBooks catch and show a message
fetchRejects ==
  /\ Running
  /\ \E i \in 1..Len(client.calls) :
       /\ client.calls[i].pc = "unreachable"
       /\ LET fn == client.calls[i].fn
              c == Settle(client, i, "error")
          IN client' = IF fn = "checkAuthentication" THEN [c EXCEPT !.page = "auth"]
                       ELSE AfterSaveBooks(c, fn)
  /\ UNCHANGED <<users, nextId, now, issued, inflight, last, memUsers>>

\* the fetch of checkAuthentication resolves with the response the server
\* sent last: currentUser is set and loadBooks() runs up to its fetch, or
\* the storage is cleared and the page is sent to /auth.html
checkAuthenticationResolves(reachable) ==
  /\ Running
  /\ last.pc = "done"
  /\ Len(last.header) = 3
  /\ LET i == last.header[3]
     IN /\ i \in 1..Len(client.calls)
        /\ client.calls[i].pc = "fetch"
        /\ client.calls[i].fn = "checkAuthentication"
        /\ IF Ok(last.status)
             THEN Fetch([Settle(client, i, "response") EXCEPT
                           !.currentUser = last.body.user],
                        "loadBooks", "books_get", NoBooksSent, reachable)
           ELSE /\ client' = [Settle(client, i, "response") EXCEPT
                                !.token = Undefined, !.user = FALSE, !.page = "auth"]
                /\ UNCHANGED <<users, nextId, now, issued, inflight, last, memUsers>>

\* the fetch of a makeAuthenticatedRequest resolves with the response the
\* server sent last: logout() and null on 401 and 403; then loadBooks takes
\* the books of a response that is ok, saveBooks throws and catches on a
\* response that is not, and the caller of saveBooks goes on
fetchResolves ==
  /\ Running
  /\ last.pc = "done"
  /\ Len(last.header) = 3
  /\ LET i == last.header[3]
     IN /\ i \in 1..Len(client.calls)
        /\ client.calls[i].pc = "fetch"
        /\ client.calls[i].fn # "checkAuthentication"
        /\ LET fn == client.calls[i].fn
               returned == makeAuthenticatedRequest(last.status)
               c == IF returned = "null" THEN logout(Settle(client, i, returned))
                    ELSE Settle(client, i, returned)
           IN client' =
                IF fn = "loadBooks"
                  THEN IF returned = "response" /\ Ok(last.status)
                         THEN [c EXCEPT !.books = last.body]
                       ELSE c
                ELSE AfterSaveBooks(c, fn)
  /\ UNCHANGED <<users, nextId, now, issued, inflight, last, memUsers>>

\* a click on the overlay: closeModal()
closeModal ==
  /\ Running
  /\ client.modal
  /\ client' = [client EXCEPT !.modal = FALSE]
  /\ UNCHANGED <<users, nextId, now, issued, inflight, last, memUsers>>

\* the findById of the gate resolves for a request of the script: the body
\* the handler reads is the body its fetch sent
ScriptGateFindById ==
  /\ GateFindById({client.calls[i].body : i \in 1..Len(client.calls)})
  /\ \A q \in BagToSet(inflight') \cup {last'} :
       (/\ q.route = "books_put"
        /\ \E k \in 1..Len(q.trace) : q.trace[k] = "handler"
        /\ client.calls[q.header[3]].pc = "fetch")
       => q.books = client.calls[q.header[3]].body

\* ---------------------------------------------------------- specifications
\* concurrent registrations only
NextRegister ==
  \/ \E b \in RegisterBodies : RegisterStart(b[1], b[2], b[3])
  \/ RegisterFindOne
  \/ RegisterSave

SpecRegister == Init /\ [][NextRegister]_vars

\* the bodies and headers the clients of the whole server send
ServerBodies ==
  { <<abc, mailA, secret>>, <<xyz, mailX, secret>>, <<Empty, mailA, secret>> }

Identifiers == { Empty, abc, mailAUpper }

LoginPasswords == { secret, other }

Headers ==
  { << >>, <<Bearer>>, <<Bearer, EmptyWord>>, <<Bearer, Garbage>> }
    \cup { <<Bearer, t>> : t \in issued }

Next ==
  \/ \E b \in ServerBodies : RegisterStart(b[1], b[2], b[3])
  \/ RegisterFindOne
  \/ RegisterSave
  \/ \E id \in Identifiers, password \in LoginPasswords : LoginStart(id, password)
  \/ LoginFindOne
  \/ \E route \in ProtectedRoutes, header \in Headers : GateStart(route, header)
  \/ GateFindById(PutBodies)
  \/ BooksFindById
  \/ BooksUpdate
  \/ \E outcome \in FetchOutcomes : AiFetch(outcome)

Spec == Init /\ [][Next]_vars

\* the headers sent while the clock advances: a malformed token, and the
\* tokens the clients hold
ClockHeaders == { <<Bearer, Garbage>> } \cup { <<Bearer, t>> : t \in issued }

\* the server under a clock that advances: registration, login, /api/verify
NextClock ==
  \/ RegisterStart(abc, mailA, secret)
  \/ RegisterFindOne
  \/ RegisterSave
  \/ LoginStart(abc, secret)
  \/ LoginFindOne
  \/ \E header \in ClockHeaders : GateStart("verify", header)
  \/ GateFindById(PutBodies)
  \/ Tick

SpecClock == Init /\ [][NextClock]_vars

\* the server over a store whose documents an administrator may delete
NextAdmin ==
  \/ \E b \in ServerBodies : RegisterStart(b[1], b[2], b[3])
  \/ RegisterFindOne
  \/ RegisterSave
  \/ \E route \in {"verify", "books_get"}, header \in Headers : GateStart(route, header)
  \/ GateFindById(PutBodies)
  \/ BooksFindById
  \/ AdminDelete

SpecAdmin == Init /\ [][NextAdmin]_vars

\* the bodies of a PUT the handler accepts, and one it does not
BooksBodies ==
  { NoBooksSent, BooksSent(Emma), BooksSent(NoLists), BooksAndMore }

\* two users reading and replacing their collections
NextBooks ==
  \/ \E b \in {<<abc, mailA, secret>>, <<xyz, mailX, secret>>} :
       RegisterStart(b[1], b[2], b[3])
  \/ RegisterFindOne
  \/ RegisterSave
  \/ \E route \in {"books_get", "books_put"}, t \in issued :
       GateStart(route, <<Bearer, t>>)
  \/ GateFindById(BooksBodies)
  \/ BooksFindById
  \/ BooksUpdate

SpecBooks == Init /\ [][NextBooks]_vars

\* concurrent registrations at the in-memory variants
MemoryBodies ==
  { <<abc, mailA, secret>>, <<abc, mailX, secret>>, <<xyz, mailA, secret>>,
    <<Empty, mailA, secret>>, <<abc, mailA, <<"1", "2", "3", "4", "5">> >> }

NextMemory ==
  \/ \E b \in MemoryBodies : IndexRegisterStart(b[1], b[2], b[3])
  \/ IndexRegisterPush
  \/ \E b \in MemoryBodies : HandlerRegisterStart(b[1], b[2], b[3])
  \/ HandlerRegisterPush

SpecMemory == Init /\ [][NextMemory]_vars

\* the values typed into the title and author inputs, and into the number
\* inputs of the book form
FormTexts == { Empty, <<" ">>, <<"D">> }

FormNumbers ==
  { Empty, <<"0">>, <<"2">>, <<"3">>, <<"-", "1">>, <<"2", ".", "5">>, <<"x">> }

\* the user of the browser script adding and editing books while the server
\* cannot be reached
NextForm ==
  \/ DOMContentLoaded(Garbage, FALSE)
  \/ \E type \in Shelves : openAddBook(type)
  \/ \E type \in Shelves, index \in 0..(MaxBooks - 1) : openBookDetails(type, index)
  \/ \E t \in FormTexts, p, c \in FormNumbers : saveBook(t, <<"H">>, p, c, FALSE)
  \/ fetchRejects
  \/ closeModal

SpecForm == Init /\ [][NextForm]_vars

\* registrations and logins where the username of one user has the shape of
\* an email and is the email of the other; no user has the identifier abc
LoginBodies ==
  { <<mailX, mailA, secret>>, <<xyz, mailX, other>> }

LoginIdentifiers == { mailX, xyz, mailA, mailAUpper, abc }

NextLogin ==
  \/ \E b \in LoginBodies : RegisterStart(b[1], b[2], b[3])
  \/ RegisterFindOne
  \/ RegisterSave
  \/ \E id \in LoginIdentifiers, password \in LoginPasswords : LoginStart(id, password)
  \/ LoginFindOne

SpecLogin == Init /\ [][NextLogin]_vars

\* the browser script of one user against the server: the page opens with
\* what the storage holds, the user adds, edits and deletes books, the
\* requests reach the server or do not
ScriptTokens == {Undefined, Garbage} \cup issued

NextScript ==
  \/ RegisterStart(abc, mailA, secret)
  \/ RegisterFindOne
  \/ RegisterSave
  \/ \E token \in ScriptTokens, reachable \in BOOLEAN : DOMContentLoaded(token, reachable)
  \/ openAddBook("read")
  \/ \E index \in 0..(MaxBooks - 1) : openBookDetails("read", index)
  \/ \E reachable \in BOOLEAN : saveBook(<<"D">>, <<"H">>, <<"2">>, <<"1">>, reachable)
  \/ \E confirmed, reachable \in BOOLEAN : deleteBook(confirmed, reachable)
  \/ \E reachable \in BOOLEAN : addRecommendationToWishlist(<<"E">>, <<"A">>, reachable)
  \/ fetchRejects
  \/ \E reachable \in BOOLEAN : checkAuthenticationResolves(reachable)
  \/ fetchResolves
  \/ closeModal
  \/ ScriptGateFindById
  \/ BooksFindById
  \/ BooksUpdate

SpecScript == Init /\ [][NextScript]_vars

\* ------------------------------------------------------------------ claims
\* every request the state holds: those in flight and the one answered last
All == BagToSet(inflight) \cup {last}

Range(seq) == {seq[i] : i \in 1..Len(seq)}

\* C1: no two stored User documents share a username, and no two share an
\* email compared case-insensitively; every stored email is lower-cased
C1_UniqueUsers ==
  /\ \A d1, d2 \in users :
       d1 # d2 => /\ d1.username # d2.username
                  /\ ToLower(d1.email) # ToLower(d2.email)
  /\ \A d \in users : d.email = ToLower(d.email)

\* two registrations of one body were in flight together: the first was
\* stored and the second was turned away by a unique index
C1_Witness ==
  /\ last.route = "register"
  /\ last.thrown \in {"username", "email"}
  /\ \E d \in users : d.username = last.username /\ d.email = last.email

\* C2: no response body carries a stored password hash, neither as a field
\* named password nor as the value of a field of the user projection
C2_NoPasswordHashInResponse ==
  \A q \in All :
    /\ "password" \notin DOMAIN q.body
    /\ "user" \in DOMAIN q.body =>
         /\ DOMAIN q.body.user = {"id", "username", "email"}
         /\ \A d \in users : /\ q.body.user.username # d.password
                             /\ q.body.user.email # d.password
    /\ "token" \in DOMAIN q.body => DOMAIN q.body.token = {"kind", "userId", "iat", "exp"}

\* a login answered with the projection of a stored user
C2_Witness ==
  /\ last.route = "login"
  /\ last.status = 200
  /\ \E d \in users : d._id = last.body.user.id /\ Len(d.password) > 0

\* C3: a request to a protected route without an Authorization header, or
\* whose header has no second word, or an empty one, is answered 401 with no
\* user attached and without its handler running
C3_NoTokenIs401 ==
  \A q \in All :
    (/\ q.route \in ProtectedRoutes
     /\ \/ Len(q.header) < 2
        \/ q.header[2].kind = "empty")
    => /\ q.pc = "done"
       /\ q.status = 401
       /\ q.body = ErrorBody("Access token required")
       /\ q.user = NoUser
       /\ Range(q.trace) \cap {"next", "handler", "books.read", "books.write", "fetch"} = {}

\* a header that is the scheme word alone was answered 401
C3_Witness ==
  /\ last.route \in ProtectedRoutes
  /\ last.header = <<Bearer>>
  /\ last.status = 401

\* C4: a request whose token failed jwt.verify, malformed or expired alike,
\* is answered 403 with the one message "Invalid or expired token", with no
\* user attached and without its handler running; a token that is no JWT at
\* all always ends so
C4_BadTokenIs403 ==
  \A q \in All :
    /\ q.thrown \in {"JsonWebTokenError", "TokenExpiredError"} =>
         /\ q.pc = "done"
         /\ q.status = 403
         /\ q.body = ErrorBody("Invalid or expired token")
         /\ q.user = NoUser
         /\ Range(q.trace) \cap {"next", "handler"} = {}
    /\ (q.route \in ProtectedRoutes /\ Len(q.header) >= 2 /\ q.header[2].kind = "garbage") =>
         /\ q.thrown = "JsonWebTokenError"
         /\ q.status = 403

\* a well-formed token was presented after it expired
C4_Witness ==
  /\ last.thrown = "TokenExpiredError"
  /\ last.header[2].kind = "jwt"
  /\ last.header[2].exp <= now

\* C5: when the gate's lookup resolves for a verified token whose user id no
\* stored document has, the request is answered 403 "User not found", no user
\* is attached and the handler does not run
C5_Step ==
  \A q \in At("gate_findById") :
    (/\ CopiesIn(q, inflight') < CopiesIn(q, inflight)
     /\ ~\E d \in users : d._id = q.header[2].userId)
    => /\ BagCardinality(inflight') < BagCardinality(inflight)
       /\ last'.route = q.route
       /\ last'.header = q.header
       /\ last'.status = 403
       /\ last'.body = ErrorBody("User not found")
       /\ last'.user = NoUser
       /\ Range(last'.trace) \cap {"next", "handler", "books.read"} = {}

C5_UnknownUserIs403 == [][C5_Step]_vars

\* a token of a deleted user was answered 403 while another user is stored
C5_Witness ==
  /\ last.route \in ProtectedRoutes
  /\ last.status = 403
  /\ last.body = ErrorBody("User not found")
  /\ last.header[2].kind = "jwt"
  /\ users # {}

\* C6: a request with an unexpired token whose user id a stored document has
\* is admitted with that document attached, and /api/verify answers 200 with
\* that document's id, username and email; a token sent with a projection
\* carries the id of that projection
C6_AdmitsTokenOwner ==
  /\ \A q \in All :
       (/\ q.route \in ProtectedRoutes
        /\ Len(q.header) >= 2
        /\ q.header[2].kind = "jwt"
        /\ now < q.header[2].exp
        /\ q.pc # "gate_findById")
       => \E d \in users :
            /\ d._id = q.header[2].userId
            /\ "next" \in Range(q.trace)
            /\ q.user._id = d._id
            /\ q.user.username = d.username
            /\ q.user.email = d.email
            /\ (q.route = "verify") =>
                 /\ q.status = 200
                 /\ q.body = [user |-> [id |-> d._id, username |-> d.username,
                                       email |-> d.email]]
  /\ \A q \in All :
       "token" \in DOMAIN q.body => q.body.token.userId = q.body.user.id

\* /api/verify was answered for the second of two stored users
C6_Witness ==
  /\ last.route = "verify"
  /\ last.status = 200
  /\ last.body.user.id = 2
  /\ Cardinality(users) = 2

\* C7: in every request, a read or write of book data comes after the gate's
\* next() in that request, which carried a token of the user whose document
\* is attached; a request answered 401 or 403 made none
C7_BooksOnlyAfterGate ==
  \A q \in All :
    /\ \A i \in 1..Len(q.trace) :
         q.trace[i] \in {"books.read", "books.write"} =>
           /\ \E j \in 1..(i - 1) : q.trace[j] = "next"
           /\ q.route \in {"books_get", "books_put"}
           /\ q.header[2].kind = "jwt"
           /\ q.user._id = q.header[2].userId
    /\ q.status \in {401, 403} =>
         Range(q.trace) \cap {"handler", "books.read", "books.write"} = {}

\* a PUT of the second user's token wrote that user's books
C7_Witness ==
  /\ last.route = "books_put"
  /\ last.status = 200
  /\ "books.write" \in Range(last.trace)
  /\ last.header[2].userId = 2
  /\ \E d \in users : d._id = 2 /\ d.books = last.books.value

\* C8: a registration is answered with the 400 of the first check that fails,
\* in the order fields present, username length, email shape, password
\* length, and makes no check and no store access after it; a body that
\* passes the four goes on to the uniqueness query
C8_Expected(username, email, password) ==
  IF Falsy(username) \/ Falsy(email) \/ Falsy(password)
    THEN <<1, "All fields are required">>
  ELSE IF Len(username) < 3
    THEN <<2, "Username must be at least 3 characters">>
  ELSE IF ~isValidEmail(email)
    THEN <<3, "Please enter a valid email address">>
  ELSE IF Len(password) < 6
    THEN <<4, "Password must be at least 6 characters">>
  ELSE <<5, "">>

C8_Order == <<"required", "usernameLength", "emailShape", "passwordLength", "findOne">>

C8_FirstFailureWins ==
  \A q \in All :
    q.route = "register" =>
      LET x == C8_Expected(q.username, q.email, q.password)
      IN IF x[1] < 5
           THEN /\ q.pc = "done"
                /\ q.status = 400
                /\ q.body = ErrorBody(x[2])
                /\ q.trace = SubSeq(C8_Order, 1, x[1])
         ELSE /\ SubSeq(q.trace, 1, 4) = SubSeq(C8_Order, 1, 4)
              /\ q.pc # "reg_findOne" => SubSeq(q.trace, 1, 5) = C8_Order
              /\ (q.pc = "done" /\ q.status = 400) =>
                   q.body.error \notin {"All fields are required",
                                        "Username must be at least 3 characters",
                                        "Please enter a valid email address",
                                        "Password must be at least 6 characters"}

\* a body that fails the username, the email and the password checks at once
\* was answered with the username error
C8_Witness ==
  /\ last.route = "register"
  /\ last.status = 400
  /\ last.body = ErrorBody("Username must be at least 3 characters")
  /\ ~isValidEmail(last.email)
  /\ Len(last.password) < 6

\* C9 (as stated): when the uniqueness query of a registration resolves and a
\* stored user has the body's email, the answer is 400 "Email already exists"
\* whatever the username; with a fresh email and a stored username it is 400
\* "Username already exists"
C9_Step ==
  \A q \in At("reg_findOne") :
    CopiesIn(q, inflight') < CopiesIn(q, inflight) =>
      LET emailTaken == \E d \in users : d.email = q.email
          emailFresh == ~\E d \in users : d.email = ToLower(Trim(q.email))
          usernameTaken == \E d \in users : d.username = q.username
      IN /\ emailTaken =>
              /\ last'.status = 400
              /\ last'.body = ErrorBody("Email already exists")
              /\ BagCardinality(inflight') < BagCardinality(inflight)
         /\ (emailFresh /\ usernameTaken) =>
              /\ last'.status = 400
              /\ last'.body = ErrorBody("Username already exists")
              /\ BagCardinality(inflight') < BagCardinality(inflight)

C9_EmailTakesPriority == [][C9_Step]_vars

\* C10 (as stated): a registration whose insert a unique index rejected is
\* answered with the 400 and the message of the pre-insert check for that
\* field, and has stored nothing
C10_PreInsertMessage(field) ==
  IF field = "email" THEN "Email already exists" ELSE "Username already exists"

C10_RaceSameError ==
  (/\ last.route = "register"
   /\ last.thrown \in {"username", "email"})
  => /\ last.status = 400
     /\ last.body = ErrorBody(C10_PreInsertMessage(last.thrown))
     /\ last.user = NoUser

\* C11 (as stated): a registration whose username has at least 3 characters,
\* whose email has the address shape and whose password has at least 6
\* characters, and that collides with no stored user (compared as the store
\* compares: username trimmed, email trimmed and lower-cased), passes the
\* uniqueness query and is answered 201 with a token of the new user and the
\* projection of the one document it added, whose three book lists are empty
C11_Valid(q) ==
  /\ Len(q.username) >= 3
  /\ isValidEmail(q.email)
  /\ Len(q.password) >= 6
  /\ ~\E d \in users : \/ d.username = Trim(q.username)
                       \/ d.email = ToLower(Trim(q.email))

C11_Step ==
  /\ \A q \in At("reg_findOne") :
       (CopiesIn(q, inflight') < CopiesIn(q, inflight) /\ C11_Valid(q))
       => /\ BagCardinality(inflight') = BagCardinality(inflight)
          /\ \E q2 \in BagToSet(inflight') : q2.pc = "reg_save" /\ q2.username = q.username
  /\ \A q \in At("reg_save") :
       (CopiesIn(q, inflight') < CopiesIn(q, inflight) /\ C11_Valid(q))
       => /\ last'.status = 201
          /\ \E d \in users' \ users :
               /\ users' = users \cup {d}
               /\ d.books = [read |-> << >>, unread |-> << >>, wishlist |-> << >>]
               /\ DOMAIN last'.body = {"message", "token", "user"}
               /\ last'.body.user = [id |-> d._id, username |-> d.username,
                                     email |-> d.email]
               /\ last'.body.token.kind = "jwt"
               /\ last'.body.token.userId = d._id

C11_ValidInputRegisters == [][C11_Step]_vars

\* C18 (as stated): every stored username, as persisted, has at least 3
\* characters (and so is non-empty)
C18_StoredUsernameLength ==
  \A d \in users : Len(d.username) >= 3

\* C12: a login answered because no user has the identifier and a login
\* answered because the password did not match the user found carry the same
\* status code and the same body
C12_UnknownIdentifier(q) ==
  /\ q.route = "login"
  /\ q.pc = "done"
  /\ "findOne" \in Range(q.trace)
  /\ "compare" \notin Range(q.trace)

C12_WrongPassword(q) ==
  /\ q.route = "login"
  /\ q.pc = "done"
  /\ "compare" \in Range(q.trace)
  /\ ~\E salt \in Salts : q.user.password = bcryptHash(q.password, salt)

C12_Step ==
  \A a, b \in {last, last'} :
    (C12_UnknownIdentifier(a) /\ C12_WrongPassword(b))
    => /\ a.status = b.status
       /\ a.body = b.body
       /\ a.status # 200

C12_LoginFailuresAlike == [][C12_Step]_vars

\* a login with a stored username and another password was turned away
\* while a login with an identifier no user has awaits its lookup
C12_Witness ==
  /\ C12_WrongPassword(last)
  /\ \E d \in users : d.username = last.username
  /\ \E q \in At("login_findOne") : LoginMatches(q.username) = {}

\* C13 (as stated): when the lookup of a login resolves, for every stored
\* user whose username or email is the identifier sent and whose hash is that
\* of the password sent, the answer is 200 with a token that verifies and
\* carries that user's id, and with that user's projection
C13_Step ==
  \A q \in At("login_findOne") :
    CopiesIn(q, inflight') < CopiesIn(q, inflight) =>
      \A d \in users :
        (/\ \/ q.username = d.username
            \/ q.username = d.email
            \/ ToLower(q.username) = d.email
         /\ \E salt \in Salts : d.password = bcryptHash(q.password, salt))
        => /\ last'.status = 200
           /\ last'.body.token.kind = "jwt"
           /\ now < last'.body.token.exp
           /\ last'.body.token.userId = d._id
           /\ last'.body.user = [id |-> d._id, username |-> d.username,
                                 email |-> d.email]

C13_LoginYieldsOwnToken == [][C13_Step]_vars

\* C17: a step of a login request (its arrival, its answer) leaves the User
\* collection and the id counter as they were; the tokens held change only
\* by the token of a login answered 200
C17_LoginStep ==
  \/ \E q \in BagToSet(inflight') :
       q.route = "login" /\ CopiesIn(q, inflight') > CopiesIn(q, inflight)
  \/ \E q \in At("login_findOne") : CopiesIn(q, inflight') < CopiesIn(q, inflight)
  \/ inflight' = inflight /\ last' # last /\ last'.route = "login"

C17_Step ==
  C17_LoginStep =>
    /\ users' = users
    /\ nextId' = nextId
    /\ issued' # issued =>
         /\ last'.route = "login"
         /\ last'.status = 200
         /\ issued' = issued \cup {last'.body.token}

C17_LoginLeavesStore == [][C17_Step]_vars

\* a login was answered 200 for a user whose lists are not empty
C17_Witness ==
  /\ last.route = "login"
  /\ last.status = 200
  /\ \E d \in users : d._id = last.user._id /\ d.books # EmptyBooks /\ d.books = last.user.books

\* C14: a request to a protected route with a token issued at time T that the
\* server takes up before T + 7 days passes the token check and, its user
\* being stored, is admitted and answered 200; one taken up after T + 7 days
\* is answered 403 as expired and is not admitted
C14_SevenDayLifetime ==
  \A q \in All :
    (/\ q.route \in ProtectedRoutes
     /\ Len(q.header) >= 2
     /\ q.header[2].kind = "jwt")
    => LET T == q.header[2].iat
       IN /\ q.at < T + 7 =>
               /\ q.thrown = ""
               /\ "jwt.verify" \in Range(q.trace)
               /\ (q.pc = "done" /\ \E d \in users : d._id = q.header[2].userId) =>
                    /\ "next" \in Range(q.trace)
                    /\ q.status = 200
          /\ q.at > T + 7 =>
               /\ q.pc = "done"
               /\ q.status = 403
               /\ q.thrown = "TokenExpiredError"
               /\ "next" \notin Range(q.trace)

\* a token was accepted 6 days after it was issued, and it is now the 8th day
C14_Witness ==
  /\ last.route = "verify"
  /\ last.status = 200
  /\ last.at = last.header[2].iat + 6
  /\ now >= last.header[2].iat + 8

\* C15 (as stated): the books of every stored user consist of exactly the
\* three lists read, unread and wishlist
C15_ThreeLists ==
  \A d \in users : DOMAIN d.books = {"read", "unread", "wishlist"}

\* C16: a PUT answered 200 leaves the user's stored lists equal to the lists
\* sent, a list not sent being absent or empty; no step other than a PUT of
\* that user changes them; a GET answers with the stored lists; so a GET that
\* follows a PUT of the same user answers with exactly the lists of that PUT
C16_Same(got, sent) ==
  \A n \in {"read", "unread", "wishlist"} :
    IF n \in DOMAIN sent THEN n \in DOMAIN got /\ got[n] = sent[n]
    ELSE n \in DOMAIN got => got[n] = << >>

C16_Put(q) == q.pc = "books_update" /\ CopiesIn(q, inflight') < CopiesIn(q, inflight)

C16_Get(q) == q.pc = "books_findById" /\ CopiesIn(q, inflight') < CopiesIn(q, inflight)

C16_Step ==
  /\ \A q \in BagToSet(inflight) :
       C16_Put(q) =>
         /\ last'.status = 200
         /\ \E d \in users' : d._id = q.user._id /\ C16_Same(d.books, q.books.value)
  /\ \A d \in users :
       (~\E q \in BagToSet(inflight) : C16_Put(q) /\ q.user._id = d._id)
       => \E d2 \in users' : d2._id = d._id /\ d2.books = d.books
  /\ \A q \in BagToSet(inflight) :
       C16_Get(q) =>
         /\ last'.status = 200
         /\ DOMAIN last'.body = {"read", "unread", "wishlist"}
         /\ \A d \in users : d._id = q.user._id => C16_Same(last'.body, d.books)
         /\ (/\ last.route = "books_put"
             /\ last.status = 200
             /\ last.user._id = q.user._id)
            => C16_Same(last'.body, last.books.value)

C20_NoDuplicateEntries ==
  /\ \A m \in {"index", "handler"} :
       \A i, j \in 1..Len(memUsers[m]) :
         i # j => memUsers[m][i].email # memUsers[m][j].email
  /\ \A i, j \in 1..Len(memUsers.handler) :
       i # j => memUsers.handler[i].username # memUsers.handler[j].username

\* C19 (as stated): every book entry the client holds has progress equal to
\* round(currentPage / pages * 100) when pages > 0 and to 0 otherwise, and
\* that value lies in 0..100
C19_Round(currentPage, pages) ==
  CHOOSE r \in -200..200 :
    /\ 2 * pages * r <= 200 * currentPage + pages
    /\ 200 * currentPage + pages < 2 * pages * (r + 1)

C19_ProgressInRange ==
  \A shelf \in {"read", "unread", "wishlist"} :
    \A i \in 1..Len(client.books[shelf]) :
      LET e == client.books[shelf][i]
      IN /\ e.progress = IF e.pages > 0 THEN C19_Round(e.currentPage, e.pages) ELSE 0
         /\ e.progress \in 0..100

\* C21: a step of a PUT /api/books request changes the store only when its
\* update resolves, and then only the books of the user its token names:
\* every other document stays as it is, that user's _id, username, email and
\* password hash stay as they are, and no document is added or removed,
\* whatever the body holds next to books
C21_Frame(a) ==
  /\ \A d \in users : d._id # a => d \in users'
  /\ \A d \in users : d._id = a => \E e \in users' : e = [d EXCEPT !.books = e.books]
  /\ Cardinality(users') = Cardinality(users)
  /\ nextId' = nextId

C21_Step ==
  \A q \in BagToSet(inflight) \cup BagToSet(inflight') :
    (q.route = "books_put" /\ CopiesIn(q, inflight') # CopiesIn(q, inflight)) =>
      IF q.pc = "books_update" /\ CopiesIn(q, inflight') < CopiesIn(q, inflight)
        THEN C21_Frame(TokenOf(q.header).userId)
      ELSE users' = users

C22_ClientMatchesServer ==
  (/\ Running
   /\ client.currentUser # NoCurrentUser
   /\ \E i \in 1..Len(client.calls) :
        client.calls[i].fn \in SaveFns /\ client.calls[i].pc = "settled"
   /\ \A i \in 1..Len(client.calls) :
        client.calls[i].fn \in SaveFns => client.calls[i].pc = "settled")
  => \E d \in users :
       d._id = client.currentUser.id /\ Hydrate(d.books) = client.books

\* C23: when a fetch of the script settles with a response of status 401 or
\* 403, the step removes the stored token and the stored user and sends the
\* page to /auth.html, the caller of makeAuthenticatedRequest receives null,
\* the books stay as they are and no further request goes out; and a
\* loadBooks request goes out only in the step in which the verify request
\* settles with status 200, so only for a script that has a current user
C23_Settles(i) ==
  /\ client.calls[i].pc = "fetch"
  /\ client'.calls[i].pc = "settled"

C23_Step ==
  /\ \A i \in 1..Len(client.calls) :
       (C23_Settles(i) /\ last.status \in {401, 403}) =>
         /\ Len(last.header) = 3 /\ last.header[3] = i
         /\ client'.token = Undefined
         /\ ~client'.user
         /\ client'.page = "auth"
         /\ client.calls[i].fn # "checkAuthentication" => client'.calls[i].returned = "null"
         /\ client'.books = client.books
         /\ Len(client'.calls) = Len(client.calls)
  /\ \A i \in 1..Len(client'.calls) :
       client'.calls[i].fn = "loadBooks" =>
         /\ client'.currentUser # NoCurrentUser
         /\ i > Len(client.calls) =>
              /\ last.route = "verify"
              /\ last.status = 200
              /\ \E j \in 1..Len(client.calls) :
                   client.calls[j].fn = "checkAuthentication" /\ C23_Settles(j)

C23_UnauthorizedLogsOut == [][C23_Step]_vars

\* a save answered 403 has left the page on /auth.html with the storage
\* cleared, its saveBooks having received null
C23_Witness ==
  /\ last.status = 403
  /\ Len(last.header) = 3
  /\ last.header[3] \in 1..Len(client.calls)
  /\ client.calls[last.header[3]].fn \in SaveFns
  /\ client.calls[last.header[3]].returned = "null"
  /\ client.page = "auth"
  /\ client.token = Undefined
  /\ ~client.user
  /\ client.books # EmptyBooks

====
